---- MODULE Spec2Model ----
(***************************************************************************)
(* Model of the glyph-grid animation code:                                 *)
(*   - LayoutPolicy::derive            (image_pipeline/resize.rs)          *)
(*   - AsciiRenderer::render_image     (ascii_render/src/lib.rs)           *)
(*   - GlyphGridSeries                 (ascii/series.rs)                   *)
(*   - BackgroundAnimation             (alacritty/src/display/background.rs)*)
(*                                                                         *)
(* Time is in milliseconds.  f32 quantities are modelled as exact          *)
(* rationals <<numerator, denominator>>; the inputs are chosen so that the *)
(* f32 computation is exact as well (powers of two).                       *)
(***************************************************************************)
EXTENDS Integers, Sequences, FiniteSets, TLC

VARIABLES
    constructed,   \* BackgroundAnimation::new has returned Some(..)
    anim,          \* the BackgroundAnimation struct
    clock,         \* what Instant::now() returns
    op,            \* the last call on the controller and what it returned
    out,           \* the Vec<RenderableCell> handed to render_cells
    series,        \* the GlyphGridSeries struct
    debug_build,   \* cfg(debug_assertions): debug_assert_eq! is compiled in
    sop,           \* the last call on the series and what it returned
    call           \* a call of derive or render_image: arguments and result

vars == <<constructed, anim, clock, op, out, series, debug_build, sop, call>>
animVars == <<constructed, anim, clock, op, out>>
seriesVars == <<series, debug_build, sop>>

---------------------------------------------------------------------------
(* Bounds of the model *)

MaxCols == 2
MaxLines == 2
MaxFrames == 3
MaxTime == 170
MaxSeriesFrames == 3
MaxElapsed == 5
MaxCap == 3

(* Program constants *)

ADVANCE_INTERVAL == 120
U16_MAX == 65535
NANOS_PER_SEC == 1000000000

\* AsciiOptions::default().font_aspect = 0.55
FONT_ASPECT == <<55, 100>>

---------------------------------------------------------------------------
(* Arithmetic helpers *)

Min(a, b) == IF a < b THEN a ELSE b
Max(a, b) == IF a > b THEN a ELSE b

\* f32::round of the non-negative rational n/d: half away from zero.
Round(n, d) == (2 * n + d) \div (2 * d)

\* `as u16` on a non-negative float saturates.
AsU16(x) == Min(x, U16_MAX)

---------------------------------------------------------------------------
(* LayoutPolicy::derive.  An aspect is <<num, den>>; a layout policy is    *)
(* [kind, columns, rows, cell_aspect] (FixedColumns uses columns only,     *)
(* ScaleToHeight rows and cell_aspect).                                    *)

NoGeometry == [some |-> FALSE, columns |-> 0, rows |-> 0, cell_aspect |-> <<1, 1>>]

SomeGeometry(columns, rows, aspect) ==
    [some |-> TRUE, columns |-> columns, rows |-> rows, cell_aspect |-> aspect]

\* Mutant: the rows computed from the columns are returned without the
\* clamp to rows_limit.
DeriveFitViewport_RowsNotClamped(columns_cap, rows_cap, aspect, source_width, source_height) ==
    IF source_width = 0 \/ source_height = 0 THEN NoGeometry
    ELSE SomeGeometry(Max(columns_cap, 1),
                      Max(AsU16(Round(source_height * Max(columns_cap, 1) * aspect[1],
                                      source_width * aspect[2])), 1),
                      aspect)

DeriveFitViewport(columns_cap, rows_cap, aspect, source_width, source_height) ==
    IF source_width = 0 \/ source_height = 0 THEN NoGeometry
    ELSE
      LET columns == Max(columns_cap, 1)
          rows_limit == Max(rows_cap, 1)
          rows == Max(AsU16(Round(source_height * columns * aspect[1],
                                  source_width * aspect[2])), 1)
      IN IF rows > rows_limit
         THEN LET derived_columns ==
                      AsU16(Round(rows_limit * source_width * aspect[2],
                                  source_height * aspect[1]))
              IN SomeGeometry(Min(columns, Max(derived_columns, 1)),
                              rows_limit, aspect)
         ELSE SomeGeometry(columns, rows, aspect)

DeriveFixedColumns(columns_arg, default_aspect, source_width, source_height) ==
    IF source_width = 0 \/ source_height = 0 THEN NoGeometry
    ELSE LET columns == Max(columns_arg, 1)
             rows == Max(AsU16(Round(source_height * columns * default_aspect[1],
                                     source_width * default_aspect[2])), 1)
         IN SomeGeometry(columns, rows, default_aspect)

\* Mutant: the derived columns are returned without `.max(1)`.
DeriveScaleToHeight_NoColumnFloor(rows_arg, aspect, source_width, source_height) ==
    IF source_width = 0 \/ source_height = 0 THEN NoGeometry
    ELSE SomeGeometry(AsU16(Round(Max(rows_arg, 1) * source_width * aspect[2],
                                  source_height * aspect[1])),
                      Max(rows_arg, 1), aspect)

DeriveScaleToHeight(rows_arg, aspect, source_width, source_height) ==
    IF source_width = 0 \/ source_height = 0 THEN NoGeometry
    ELSE LET rows == Max(rows_arg, 1)
             columns == AsU16(Round(rows * source_width * aspect[2],
                                    source_height * aspect[1]))
         IN SomeGeometry(Max(columns, 1), rows, aspect)

Derive(layout, source_width, source_height, default_aspect) ==
    CASE layout.kind = "FixedColumns" ->
             DeriveFixedColumns(layout.columns, default_aspect,
                                source_width, source_height)
      [] layout.kind = "FitViewport" ->
             DeriveFitViewport(layout.columns, layout.rows, layout.cell_aspect,
                               source_width, source_height)
      [] layout.kind = "ScaleToHeight" ->
             DeriveScaleToHeight(layout.rows, layout.cell_aspect,
                                 source_width, source_height)

---------------------------------------------------------------------------
(* AsciiRenderer::render_image with a FitViewport layout.  An image is     *)
(* [id, width, height]; the cell rendered for pixel idx of image id is the *)
(* tagged value [src |-> id, idx |-> idx].                                 *)

CellOf(image, idx) == [src |-> image.id, idx |-> idx]

RenderImage(image, layout) ==
    LET geometry == Derive(layout, image.width, image.height, FONT_ASPECT)
    IN IF ~geometry.some THEN [ok |-> FALSE]
       ELSE [ok |-> TRUE,
             grid |-> [width |-> geometry.columns,
                       height |-> geometry.rows,
                       cells |-> [i \in 1..(geometry.columns * geometry.rows)
                                    |-> CellOf(image, i - 1)]]]

---------------------------------------------------------------------------
(* The cells of render_image.  A pixel of the resized raster is            *)
(* [r, g, b, a, luma]: its RGBA bytes and the luminance to_luma32f gives   *)
(* for it, a rational in [0, 1].  A character is its code point.  Options  *)
(* are [gradient, invert, font_aspect, color_mode]; contrast and           *)
(* brightness are 0 and the edge mode is None, as in AsciiOptions::default.*)

TRANSPARENT_ALPHA_THRESHOLD == <<1, 1000>>

\* ' '
Space == 32

\* Gradient::blocks(): full block, dark, medium and light shade, space.
Blocks == <<9608, 9619, 9618, 9617, Space>>

\* Gradient::binary()
Binary == <<48, 49>>

\* f32::clamp(0.0, 1.0) of the rational x.
ClampUnit(x) ==
    IF x[1] < 0 THEN <<0, 1>> ELSE IF x[1] > x[2] THEN <<1, 1>> ELSE x

\* One element of adjust::extract_luma.
ExtractLuma(pixel, invert) ==
    ClampUnit(IF invert THEN <<pixel.luma[2] - pixel.luma[1], pixel.luma[2]>>
              ELSE pixel.luma)

CellGlyphNew(ch, intensity) ==
    LET level == Round(ClampUnit(intensity)[1] * 255, ClampUnit(intensity)[2])
    IN [ch |-> ch, fg |-> <<level, level, level>>, bg |-> "None", alpha |-> <<1, 1>>]

\* One pass of the loop of GlyphMapper::map_intensity.
MapIntensityCell(value, gradient) ==
    LET normalized == ClampUnit(value)
        max_index == Len(gradient) - 1
        index == Round(normalized[1] * max_index, normalized[2])
    IN CellGlyphNew(gradient[Min(index, max_index) + 1], normalized)

\* One pass of the loop that copies the raster's colour into the grid.
OverwriteCell(cell, pixel) ==
    [ch |-> IF pixel.a * TRANSPARENT_ALPHA_THRESHOLD[2]
                   <= 255 * TRANSPARENT_ALPHA_THRESHOLD[1]
            THEN Space ELSE cell.ch,
     fg |-> <<pixel.r, pixel.g, pixel.b>>,
     bg |-> cell.bg,
     alpha |-> <<pixel.a, 255>>]

\* The intensity map of the raster and the grid cells mapped from it.
MappedCells(pixels, options) ==
    [i \in 1..Len(pixels) |->
        MapIntensityCell(ExtractLuma(pixels[i], options.invert), options.gradient)]

\* The part of render_image after the resize: from the raster's pixels to
\* the cells of the grid.  options.color_mode is not read.
RenderPixels(pixels, options) ==
    IF Len(pixels) = Len(MappedCells(pixels, options))
    THEN [i \in 1..Len(pixels) |->
             OverwriteCell(MappedCells(pixels, options)[i], pixels[i])]
    ELSE MappedCells(pixels, options)

\* resize_exact and to_rgba8 are library code: the raster of n pixels they
\* give is taken to repeat the source's texture.
Resized(texture, n) == [i \in 1..n |-> texture[((i - 1) % Len(texture)) + 1]]

\* render_image with the cells' content; an image is [width, height,
\* texture].
RenderImageCells(image, layout, options) ==
    LET geometry == Derive(layout, image.width, image.height, options.font_aspect)
    IN IF ~geometry.some
       THEN [ok |-> FALSE, geometry |-> NoGeometry, cells |-> <<>>]
       ELSE [ok |-> TRUE, geometry |-> geometry,
             cells |-> RenderPixels(Resized(image.texture,
                                            geometry.columns * geometry.rows),
                                    options)]

---------------------------------------------------------------------------
(* GlyphFrameSeries: the flat frame volume held by the controller.  Its    *)
(* definition is not among the sources; the controller only uses the       *)
(* constructor, the width/height fields, frame_count, is_empty and frame.  *)

GlyphFrameSeriesNew(width, height, frame_count, cells) ==
    [width |-> width, height |-> height, frame_count |-> frame_count,
     cells |-> cells]

VolumeFrameCount(volume) == volume.frame_count

VolumeIsEmpty(volume) == Len(volume.cells) = 0

\* frame(index): the index-th slice of width * height cells, or None.
VolumeFrame(volume, index) ==
    LET stride == volume.width * volume.height
    IN IF index < volume.frame_count /\ (index + 1) * stride <= Len(volume.cells)
       THEN [some |-> TRUE,
             cells |-> SubSeq(volume.cells, index * stride + 1, (index + 1) * stride)]
       ELSE [some |-> FALSE]

---------------------------------------------------------------------------
(* BackgroundAnimation::create_volume.  A source frame is                  *)
(* [image |-> [id, width, height], delay]; a viewport (SizeInfo) is        *)
(* [columns, screen_lines, cell_width, cell_height].                       *)

\* f32::EPSILON is far below the smallest positive cell width of the model.
CellAspect(size) ==
    IF size.cell_width > 0 THEN <<size.cell_width, size.cell_height>> ELSE <<1, 1>>

\* Mutant: the cells are appended before the dimension check, so the cells
\* of a dropped frame stay in the vector.
CreateVolumeMatch_CellsBeforeCheck(r, frame, acc) ==
    IF ~r.ok THEN acc
    ELSE IF r.grid.width = 0 \/ r.grid.height = 0 THEN acc
    ELSE IF acc.dims_some
         THEN IF acc.width # r.grid.width \/ acc.height # r.grid.height
              THEN [acc EXCEPT !.cells = @ \o r.grid.cells]
              ELSE [acc EXCEPT !.delays = Append(@, frame.delay),
                               !.cells = @ \o r.grid.cells]
         ELSE [dims_some |-> TRUE,
               width |-> r.grid.width,
               height |-> r.grid.height,
               delays |-> Append(acc.delays, frame.delay),
               cells |-> acc.cells \o r.grid.cells]

\* Mutant: the delay is pushed before the dimension check, so the delay of a
\* dropped frame stays in the list.
CreateVolumeMatch_DelayBeforeCheck(r, frame, acc) ==
    IF ~r.ok THEN acc
    ELSE IF r.grid.width = 0 \/ r.grid.height = 0 THEN acc
    ELSE IF acc.dims_some
         THEN IF acc.width # r.grid.width \/ acc.height # r.grid.height
              THEN [acc EXCEPT !.delays = Append(@, frame.delay)]
              ELSE [acc EXCEPT !.delays = Append(@, frame.delay),
                               !.cells = @ \o r.grid.cells]
         ELSE [dims_some |-> TRUE,
               width |-> r.grid.width,
               height |-> r.grid.height,
               delays |-> Append(acc.delays, frame.delay),
               cells |-> acc.cells \o r.grid.cells]

\* The arms of `match renderer.render_image(..)` in the loop body: what a
\* render result r of `frame` does to the accumulators
\* (frame_dimensions, delays, cells).
CreateVolumeMatch(r, frame, acc) ==
    IF ~r.ok THEN acc
    ELSE IF r.grid.width = 0 \/ r.grid.height = 0 THEN acc
    ELSE IF acc.dims_some
         THEN IF acc.width # r.grid.width \/ acc.height # r.grid.height
              THEN acc
              ELSE [acc EXCEPT !.delays = Append(@, frame.delay),
                               !.cells = @ \o r.grid.cells]
         ELSE [dims_some |-> TRUE,
               width |-> r.grid.width,
               height |-> r.grid.height,
               delays |-> Append(acc.delays, frame.delay),
               cells |-> acc.cells \o r.grid.cells]

\* One pass of the `for frame in frames` loop body.
CreateVolumeStep(frame, layout, acc) ==
    CreateVolumeMatch(RenderImage(frame.image, layout), frame, acc)

RECURSIVE CreateVolumeLoop(_, _, _, _)
CreateVolumeLoop(frames, i, layout, acc) ==
    IF i > Len(frames) THEN acc
    ELSE CreateVolumeLoop(frames, i + 1, layout,
                          CreateVolumeStep(frames[i], layout, acc))

\* The checks after the loop and the construction of the result.
CreateVolumeFinish(acc) ==
    IF ~acc.dims_some THEN [some |-> FALSE]
    ELSE IF Len(acc.delays) = 0 THEN [some |-> FALSE]
    ELSE IF acc.width * acc.height = 0 THEN [some |-> FALSE]
    ELSE IF Len(acc.cells) # (acc.width * acc.height) * Len(acc.delays)
         THEN [some |-> FALSE]
    ELSE [some |-> TRUE,
          volume |-> GlyphFrameSeriesNew(acc.width, acc.height,
                                         Len(acc.delays), acc.cells),
          frame_delays |-> acc.delays]

NoAccumulated ==
    [dims_some |-> FALSE, width |-> 0, height |-> 0, delays |-> <<>>, cells |-> <<>>]

CreateVolume(size, frames) ==
    IF Len(frames) = 0 THEN [some |-> FALSE]
    ELSE IF Min(size.columns, U16_MAX) = 0 \/ Min(size.screen_lines, U16_MAX) = 0
         THEN [some |-> FALSE]
    ELSE CreateVolumeFinish(
             CreateVolumeLoop(frames, 1,
                              [kind |-> "FitViewport",
                               columns |-> Min(size.columns, U16_MAX),
                               rows |-> Min(size.screen_lines, U16_MAX),
                               cell_aspect |-> CellAspect(size)],
                              NoAccumulated))

---------------------------------------------------------------------------
(* BackgroundAnimation: the methods as functions of the struct. *)

EmptyVolume == GlyphFrameSeriesNew(0, 0, 0, <<>>)

\* Mutant: the viewport passed by the host is not looked at.
IsActive_IgnoresViewport(a, size) ==
    /\ a.volume.width > 0
    /\ a.volume.height > 0
    /\ VolumeFrameCount(a.volume) > 0
    /\ ~VolumeIsEmpty(a.volume)

IsActive(a, size) ==
    /\ size.columns > 0
    /\ size.screen_lines > 0
    /\ a.volume.width > 0
    /\ a.volume.height > 0
    /\ VolumeFrameCount(a.volume) > 0
    /\ ~VolumeIsEmpty(a.volume)

\* BackgroundAnimation::new after load_frames returned `loaded`.
New(size, loaded, color_mode, now) ==
    IF ~loaded.ok THEN [some |-> FALSE]
    ELSE IF Len(loaded.frames) = 0 THEN [some |-> FALSE]
    ELSE LET v == CreateVolume(size, loaded.frames)
         IN IF ~v.some THEN [some |-> FALSE]
            ELSE [some |-> TRUE,
                  anim |-> [volume |-> v.volume,
                            current_frame_index |-> 0,
                            last_update |-> now,
                            needs_full_redraw |-> TRUE,
                            source_frames |-> loaded.frames,
                            frame_delays |-> v.frame_delays,
                            color_mode |-> color_mode]]

\* Mutant: the cursor is left where it was.
OnResize_KeepsIndex(a, size, now) ==
    LET v == CreateVolume(size, a.source_frames)
        rebuilt == IF v.some
                   THEN [a EXCEPT !.volume = v.volume,
                                  !.frame_delays = v.frame_delays]
                   ELSE [a EXCEPT !.volume = EmptyVolume,
                                  !.frame_delays = <<>>]
    IN [rebuilt EXCEPT !.last_update = now,
                       !.needs_full_redraw = TRUE]

\* Mutant: a failed rebuild empties the series but keeps the old delays.
OnResize_KeepsDelaysOnFailure(a, size, now) ==
    LET v == CreateVolume(size, a.source_frames)
        rebuilt == IF v.some
                   THEN [a EXCEPT !.volume = v.volume,
                                  !.frame_delays = v.frame_delays]
                   ELSE [a EXCEPT !.volume = EmptyVolume]
    IN [rebuilt EXCEPT !.current_frame_index = 0,
                       !.last_update = now,
                       !.needs_full_redraw = TRUE]

\* Mutant: a failed rebuild also drops the retained source frames.
OnResize_DropsSourcesOnFailure(a, size, now) ==
    LET v == CreateVolume(size, a.source_frames)
        rebuilt == IF v.some
                   THEN [a EXCEPT !.volume = v.volume,
                                  !.frame_delays = v.frame_delays]
                   ELSE [a EXCEPT !.volume = EmptyVolume,
                                  !.frame_delays = <<>>,
                                  !.source_frames = <<>>]
    IN [rebuilt EXCEPT !.current_frame_index = 0,
                       !.last_update = now,
                       !.needs_full_redraw = TRUE]

\* Mutant: the cursor and the redraw flag are reset only when the rebuild
\* succeeded.
OnResize_ResetOnlyOnSuccess(a, size, now) ==
    LET v == CreateVolume(size, a.source_frames)
    IN IF v.some
       THEN [a EXCEPT !.volume = v.volume, !.frame_delays = v.frame_delays,
                      !.current_frame_index = 0, !.last_update = now,
                      !.needs_full_redraw = TRUE]
       ELSE [a EXCEPT !.volume = EmptyVolume, !.frame_delays = <<>>,
                      !.last_update = now]

OnResize(a, size, now) ==
    LET v == CreateVolume(size, a.source_frames)
        rebuilt == IF v.some
                   THEN [a EXCEPT !.volume = v.volume,
                                  !.frame_delays = v.frame_delays]
                   ELSE [a EXCEPT !.volume = EmptyVolume,
                                  !.frame_delays = <<>>]
    IN [rebuilt EXCEPT !.current_frame_index = 0,
                       !.last_update = now,
                       !.needs_full_redraw = TRUE]

\* Mutant: a zero delay is used as it is.
CurrentFrameDelay_NoFallback(a) ==
    IF Len(a.frame_delays) = 0 THEN ADVANCE_INTERVAL
    ELSE a.frame_delays[Min(a.current_frame_index, Len(a.frame_delays) - 1) + 1]

CurrentFrameDelay(a) ==
    IF Len(a.frame_delays) = 0 THEN ADVANCE_INTERVAL
    ELSE LET index == Min(a.current_frame_index, Len(a.frame_delays) - 1)
             delay == a.frame_delays[index + 1]
         IN IF delay = 0 THEN ADVANCE_INTERVAL ELSE delay

\* Mutant: the index stops at the last frame instead of wrapping.
AdvanceFrame_StopsAtLast(a) ==
    IF VolumeFrameCount(a.volume) <= 1 THEN a
    ELSE [a EXCEPT !.current_frame_index =
                       Min(a.current_frame_index + 1, VolumeFrameCount(a.volume) - 1)]

\* Mutant: the index is incremented without the modulo.
AdvanceFrame_NoWrap(a) ==
    IF VolumeFrameCount(a.volume) <= 1 THEN a
    ELSE [a EXCEPT !.current_frame_index = a.current_frame_index + 1]

AdvanceFrame(a) ==
    IF VolumeFrameCount(a.volume) <= 1 THEN a
    ELSE [a EXCEPT !.current_frame_index =
                       (a.current_frame_index + 1) % VolumeFrameCount(a.volume)]

\* Instant::duration_since saturates to zero when `earlier` is later.
DurationSince(now, earlier) == IF now >= earlier THEN now - earlier ELSE 0

\* Mutant: the pending full redraw also advances the frame.
Update_AdvanceOnRedraw(a, now, size) ==
    IF ~IsActive(a, size) THEN [ret |-> FALSE, anim |-> a]
    ELSE IF a.needs_full_redraw
         THEN [ret |-> TRUE,
               anim |-> AdvanceFrame([a EXCEPT !.needs_full_redraw = FALSE,
                                               !.last_update = now])]
    ELSE IF DurationSince(now, a.last_update) < CurrentFrameDelay(a)
         THEN [ret |-> FALSE, anim |-> a]
    ELSE [ret |-> TRUE, anim |-> AdvanceFrame([a EXCEPT !.last_update = now])]

Update(a, now, size) ==
    IF ~IsActive(a, size) THEN [ret |-> FALSE, anim |-> a]
    ELSE IF a.needs_full_redraw
         THEN [ret |-> TRUE,
               anim |-> [a EXCEPT !.needs_full_redraw = FALSE,
                                  !.last_update = now]]
    ELSE IF DurationSince(now, a.last_update) < CurrentFrameDelay(a)
         THEN [ret |-> FALSE, anim |-> a]
    ELSE [ret |-> TRUE, anim |-> AdvanceFrame([a EXCEPT !.last_update = now])]

CurrentFrameCells(a) ==
    LET f == VolumeFrame(a.volume, a.current_frame_index)
    IN IF f.some THEN f.cells ELSE <<>>

\* Mutant: the cell index uses the clipped width as the row stride.
RECURSIVE VisibleCells_ClippedStride(_, _, _, _, _)
VisibleCells_ClippedStride(frame_cells, width, visible_columns, visible_lines, k) ==
    IF k >= visible_columns * visible_lines THEN <<>>
    ELSE <<[cell |-> frame_cells[(k \div visible_columns) * visible_columns
                                 + (k % visible_columns) + 1],
            point |-> <<k \div visible_columns, k % visible_columns>>]>>
         \o VisibleCells_ClippedStride(frame_cells, width, visible_columns,
                                       visible_lines, k + 1)

\* The cells render_cells pushes, in push order.
RECURSIVE VisibleCells(_, _, _, _, _)
VisibleCells(frame_cells, width, visible_columns, visible_lines, k) ==
    IF k >= visible_columns * visible_lines THEN <<>>
    ELSE LET line == k \div visible_columns
             column == k % visible_columns
             idx == line * width + column
         IN <<[cell |-> frame_cells[idx + 1], point |-> <<line, column>>]>>
            \o VisibleCells(frame_cells, width, visible_columns, visible_lines, k + 1)

RenderCells(a, size, o) ==
    IF ~IsActive(a, size) THEN o
    ELSE LET width == a.volume.width
             visible_columns == Min(size.columns, width)
             visible_lines == Min(size.screen_lines, a.volume.height)
             frame_cells == CurrentFrameCells(a)
         IN IF width = 0 THEN o
            ELSE IF visible_columns = 0 \/ visible_lines = 0 THEN o
            ELSE IF Len(frame_cells) = 0 THEN o
            ELSE o \o VisibleCells(frame_cells, width, visible_columns,
                                   visible_lines, 0)

---------------------------------------------------------------------------
(* GlyphGridSeries.  A frame is [grid |-> [width, height], duration]; the  *)
(* struct is [frames, total_duration, geometry].  Durations are in         *)
(* nanoseconds.                                                            *)

\* f32 equality of two aspects.
AspectEq(a, b) == a[1] * b[2] = b[1] * a[2]

GeometryEq(g, h) ==
    g.columns = h.columns /\ g.rows = h.rows /\ AspectEq(g.cell_aspect, h.cell_aspect)

SetGeometry(sr, geometry) == [sr EXCEPT !.geometry = geometry]

\* Mutant: the frames are dropped but the running total is kept.
Clear_KeepsTotal(sr) == [sr EXCEPT !.frames = <<>>]

Clear(sr) == [sr EXCEPT !.frames = <<>>, !.total_duration = 0]

\* The debug_assert_eq! pair of push_frame fails.
PushFramePanics(sr, frame) ==
    /\ sr.geometry.some
    /\ \/ sr.geometry.columns # frame.grid.width
       \/ sr.geometry.rows # frame.grid.height

\* Mutant: the first frame does not define the geometry.
PushFrame_LeavesNoGeometry(sr, frame) ==
    [frames |-> Append(sr.frames, frame),
     total_duration |-> sr.total_duration + frame.duration,
     geometry |-> sr.geometry]

PushFrame(sr, frame) ==
    LET columns == frame.grid.width
        rows == frame.grid.height
        cell_aspect == IF columns = 0 THEN <<1, 1>> ELSE <<rows, columns>>
        geometry == IF sr.geometry.some THEN sr.geometry
                    ELSE SomeGeometry(columns, rows, cell_aspect)
    IN [frames |-> Append(sr.frames, frame),
        total_duration |-> sr.total_duration + frame.duration,
        geometry |-> geometry]

\* builder(index, geometry): a closure of the caller.  It either returns a
\* grid of the geometry it is given or a grid of its own choosing.
BuilderGrid(builder, index, geometry) ==
    IF builder.honours_geometry
    THEN [width |-> geometry.columns, height |-> geometry.rows]
    ELSE builder.grid

RECURSIVE RebuildLoop(_, _, _, _, _)
RebuildLoop(sr, index, frame_count, frame_duration, builder) ==
    IF index >= frame_count THEN sr
    ELSE RebuildLoop(
             [sr EXCEPT !.total_duration = @ + frame_duration,
                        !.frames = Append(@, [grid |-> BuilderGrid(builder, index, sr.geometry),
                                              duration |-> frame_duration])],
             index + 1, frame_count, frame_duration, builder)

RebuildFrom(sr, frame_count, frame_duration, builder) ==
    LET cleared == Clear(sr)
    IN IF frame_count = 0 THEN cleared
       ELSE IF ~cleared.geometry.some THEN cleared
       ELSE IF cleared.geometry.columns = 0 \/ cleared.geometry.rows = 0 THEN cleared
       ELSE LET built == RebuildLoop(cleared, 0, frame_count, frame_duration, builder)
            IN IF frame_duration = 0
               THEN [built EXCEPT !.total_duration = 0]
               ELSE built

TotalDuration(sr) == IF Len(sr.frames) = 0 THEN 0 ELSE sr.total_duration

\* Mutant: the elapsed time is not reduced modulo the total duration.
NormalizeElapsed_NoModulo(sr, elapsed) ==
    IF Len(sr.frames) <= 1 THEN 0
    ELSE IF TotalDuration(sr) = 0 THEN 0
    ELSE elapsed

NormalizeElapsed(sr, elapsed) ==
    IF Len(sr.frames) <= 1 THEN 0
    ELSE LET total == TotalDuration(sr)
         IN IF total = 0 THEN 0
            ELSE LET remainder == elapsed % total
                     secs == remainder \div NANOS_PER_SEC
                     nanos == remainder % NANOS_PER_SEC
                 IN secs * NANOS_PER_SEC + nanos

\* Mutant: the loop does not stop at a zero-duration frame.
RECURSIVE FrameWalk_NoZeroStop(_, _, _)
FrameWalk_NoZeroStop(frames, index, remaining) ==
    IF index >= Len(frames) THEN Len(frames) - 1
    ELSE IF remaining < frames[index + 1].duration THEN index
    ELSE FrameWalk_NoZeroStop(frames, index + 1,
                              remaining - frames[index + 1].duration)

\* The `for (index, frame)` loop of frame_index_at; index is 0-based.
RECURSIVE FrameWalk(_, _, _)
FrameWalk(frames, index, remaining) ==
    IF index >= Len(frames) THEN Len(frames) - 1
    ELSE LET duration == frames[index + 1].duration
         IN IF duration = 0 \/ remaining < duration THEN index
            ELSE FrameWalk(frames, index + 1, remaining - duration)

\* frame_index_at: None is -1.
FrameIndexAt(sr, elapsed) ==
    IF Len(sr.frames) = 0 THEN -1
    ELSE IF Len(sr.frames) = 1 THEN 0
    ELSE FrameWalk(sr.frames, 0, NormalizeElapsed(sr, elapsed))

UpdateGeometryFromLayout(sr, layout, source_width, source_height, default_aspect) ==
    LET geometry == Derive(layout, source_width, source_height, default_aspect)
    IN IF ~geometry.some THEN [ret |-> NoGeometry, series |-> sr]
       ELSE LET changed == IF sr.geometry.some
                           THEN ~GeometryEq(sr.geometry, geometry)
                           ELSE TRUE
                updated == IF changed THEN [sr EXCEPT !.geometry = geometry] ELSE sr
            IN [ret |-> updated.geometry, series |-> updated]

---------------------------------------------------------------------------
(* Inputs of the controller model *)

\* Decoded rasters (width, height) and the delays the decoder reports.
FrameKinds == { [width |-> 2, height |-> 2, delay |-> 0],
                [width |-> 2, height |-> 4, delay |-> 50] }

\* What load_frames can return: the frames in decode order; the image id is
\* the position of the frame in the decoded sequence.
SourceLists ==
    UNION { { [i \in 1..n |-> [image |-> [id |-> i, width |-> k[i].width,
                                          height |-> k[i].height],
                               delay |-> k[i].delay]] :
              k \in [1..n -> FrameKinds] } : n \in 0..MaxFrames }

LoadResults == { [ok |-> FALSE, frames |-> <<>>] }
               \cup { [ok |-> TRUE, frames |-> l] : l \in SourceLists }

ColorModes == { "Luminance", "ColorAlpha" }

Sizes == [columns : 0..MaxCols, screen_lines : 0..MaxLines,
          cell_width : {1}, cell_height : {2}]

TickSteps == { 50, 70 }

\* The instant the host hands to update: Instant::now() at the call.
Nows == { clock }

\* A marker for cells that are in the output vector before render_cells.
PriorCell == [cell |-> [src |-> 0, idx |-> 0], point |-> <<0, 0>>]
PriorOutputs == { <<PriorCell>> }

\* AsciiOptions::default(), and the call record before any call.
DefaultOptions ==
    [gradient |-> Blocks, invert |-> FALSE, font_aspect |-> FONT_ASPECT,
     color_mode |-> "Luminance"]

NoRenderCall ==
    [fn |-> "none", done |-> FALSE,
     layout |-> [kind |-> "FixedColumns", columns |-> 0, rows |-> 0,
                 cell_aspect |-> <<1, 1>>],
     image |-> [width |-> 0, height |-> 0, texture |-> <<>>],
     options |-> DefaultOptions,
     ok |-> FALSE, geometry |-> NoGeometry, cells |-> <<>>]

Unconstructed ==
    [volume |-> EmptyVolume, current_frame_index |-> 0, last_update |-> 0,
     needs_full_redraw |-> FALSE, source_frames |-> <<>>, frame_delays |-> <<>>,
     color_mode |-> "Luminance"]

\* GlyphGridSeries::new() / Default
EmptySeries == [frames |-> <<>>, total_duration |-> 0, geometry |-> NoGeometry]

NoSeriesCall == [name |-> "none", arg |-> 0, ret |-> 0, panicked |-> FALSE]

---------------------------------------------------------------------------
(* The controller as a state machine.  op records the last call: its name, *)
(* what it returned (for new: Some/None) and whether the viewport it was   *)
(* passed had zero columns or zero lines; out is the vector the last call  *)
(* filled, when that call was render_cells.                                *)

ZeroViewport(size) == size.columns = 0 \/ size.screen_lines = 0

Call(name, ret, size) == [name |-> name, ret |-> ret, zero_viewport |-> ZeroViewport(size)]

NoCall == [name |-> "none", ret |-> FALSE, zero_viewport |-> FALSE]

Init ==
    /\ constructed = FALSE
    /\ anim = Unconstructed
    /\ clock = 0
    /\ op = NoCall
    /\ out = <<>>
    /\ series = EmptySeries
    /\ debug_build = FALSE
    /\ sop = NoSeriesCall
    /\ call = NoRenderCall

\* Time passes between two calls of the host: no call has just returned.
Tick ==
    \E d \in TickSteps :
        /\ clock + d <= MaxTime
        /\ clock' = clock + d
        /\ op' = NoCall
        /\ out' = <<>>
        /\ UNCHANGED <<constructed, anim, seriesVars, call>>

NewWith(results) ==
    /\ ~constructed
    /\ \E size \in Sizes, loaded \in results, mode \in ColorModes :
         LET r == New(size, loaded, mode, clock)
         IN /\ constructed' = r.some
            /\ anim' = IF r.some THEN r.anim ELSE anim
            /\ op' = Call("new", r.some, size)
    /\ out' = <<>>
    /\ UNCHANGED <<clock, seriesVars, call>>

NewCall == NewWith(LoadResults)

OnResizeCall ==
    /\ constructed
    /\ \E size \in Sizes :
         /\ anim' = OnResize(anim, size, clock)
         /\ op' = Call("on_resize", FALSE, size)
    /\ out' = <<>>
    /\ UNCHANGED <<constructed, clock, seriesVars, call>>

UpdateCall ==
    /\ constructed
    /\ \E size \in Sizes, now \in Nows :
         LET r == Update(anim, now, size)
         IN /\ anim' = r.anim
            /\ op' = Call("update", r.ret, size)
    /\ out' = <<>>
    /\ UNCHANGED <<constructed, clock, seriesVars, call>>

RenderCellsCall ==
    /\ constructed
    /\ \E size \in Sizes, prior \in PriorOutputs :
         /\ out' = RenderCells(anim, size, prior)
         /\ op' = Call("render_cells", FALSE, size)
    /\ UNCHANGED <<constructed, anim, clock, seriesVars, call>>

Next == Tick \/ NewCall \/ OnResizeCall \/ UpdateCall \/ RenderCellsCall

Spec == Init /\ [][Next]_vars

---------------------------------------------------------------------------
(* Playback without resizes: the host keeps calling update with a non-zero *)
(* viewport while time passes.  update reads its instant only through      *)
(* now.duration_since(last_update), so the instants are kept relative to   *)
(* the last stamp (an update that stamps last_update moves the origin of    *)
(* time there), and the time elapsed since the stamp is followed up to      *)
(* MaxTime, which exceeds every delay.                                      *)

NonZeroSizes == { size \in Sizes : ~ZeroViewport(size) }

TickLive ==
    /\ constructed
    /\ \E d \in TickSteps :
         /\ clock + d <= anim.last_update + MaxTime
         /\ clock' = clock + d
    /\ op' = NoCall
    /\ out' = <<>>
    /\ UNCHANGED <<constructed, anim, seriesVars, call>>

UpdateLive ==
    /\ constructed
    /\ \E size \in NonZeroSizes :
         /\ anim' = [Update(anim, clock, size).anim EXCEPT
                        !.last_update = IF Update(anim, clock, size).ret THEN 0 ELSE @]
         /\ clock' = IF Update(anim, clock, size).ret THEN 0 ELSE clock
         /\ op' = Call("update", Update(anim, clock, size).ret, size)
    /\ out' = <<>>
    /\ UNCHANGED <<constructed, seriesVars, call>>

NextLive == NewCall \/ TickLive \/ UpdateLive

\* Time keeps passing and the host keeps calling update.
SpecLive ==
    Init /\ [][NextLive]_vars /\ WF_vars(TickLive) /\ WF_vars(UpdateLive)

---------------------------------------------------------------------------
(* The rebuild path alone (new and on_resize), over a wider set of decoded *)
(* sequences: frames of two aspect ratios, a raster with a zero dimension  *)
(* (its render fails with InvalidLayout), and equal rasters with different *)
(* delays.                                                                 *)

WideFrameKinds == FrameKinds \cup
                  { [width |-> 0, height |-> 2, delay |-> ADVANCE_INTERVAL],
                    [width |-> 2, height |-> 2, delay |-> 70] }

WideSourceLists ==
    UNION { { [i \in 1..n |-> [image |-> [id |-> i, width |-> k[i].width,
                                          height |-> k[i].height],
                               delay |-> k[i].delay]] :
              k \in [1..n -> WideFrameKinds] } : n \in 0..MaxFrames }

WideLoadResults == { [ok |-> FALSE, frames |-> <<>>] }
                   \cup { [ok |-> TRUE, frames |-> l] : l \in WideSourceLists }

NewWideCall == NewWith(WideLoadResults)

NextVolume == NewWideCall \/ OnResizeCall

SpecVolume == Init /\ [][NextVolume]_vars

---------------------------------------------------------------------------
(* Inputs of the series model *)

Grids == { [width |-> 1, height |-> 1], [width |-> 2, height |-> 1] }

\* Frame durations: a zero one and two different non-zero ones.
Durations == { 0, 1, 2 }

SeriesFrames == [grid : Grids, duration : Durations]

Geometries == { SomeGeometry(1, 1, <<1, 1>>), SomeGeometry(2, 1, <<1, 2>>),
                SomeGeometry(0, 1, <<1, 1>>) }

Builders == { [honours_geometry |-> TRUE, grid |-> [width |-> 0, height |-> 0]] }
            \cup { [honours_geometry |-> FALSE, grid |-> g] : g \in Grids }

Layouts == { [kind |-> "FixedColumns", columns |-> 2, rows |-> 0,
              cell_aspect |-> <<1, 1>>],
             [kind |-> "FitViewport", columns |-> 2, rows |-> 1,
              cell_aspect |-> <<1, 2>>],
             [kind |-> "ScaleToHeight", columns |-> 0, rows |-> 1,
              cell_aspect |-> <<1, 2>>] }

SourceDims == { <<0, 2>>, <<2, 2>>, <<4, 2>> }

Elapsed == 0..MaxElapsed

---------------------------------------------------------------------------
(* The series as a state machine.  A failed debug assertion unwinds: no    *)
(* call follows it.                                                        *)

SeriesCall(name, arg, ret) == [name |-> name, arg |-> arg, ret |-> ret, panicked |-> FALSE]

InitSeries ==
    /\ constructed = FALSE
    /\ anim = Unconstructed
    /\ clock = 0
    /\ op = NoCall
    /\ out = <<>>
    /\ series = EmptySeries
    /\ debug_build \in BOOLEAN
    /\ sop = NoSeriesCall
    /\ call = NoRenderCall

SetGeometryCall ==
    /\ ~sop.panicked
    /\ \E g \in Geometries :
         /\ series' = SetGeometry(series, g)
         /\ sop' = SeriesCall("set_geometry", 0, 0)
    /\ UNCHANGED <<animVars, debug_build, call>>

ClearCall ==
    /\ ~sop.panicked
    /\ series' = Clear(series)
    /\ sop' = SeriesCall("clear", 0, 0)
    /\ UNCHANGED <<animVars, debug_build, call>>

PushFrameCall ==
    /\ ~sop.panicked
    /\ Len(series.frames) < MaxSeriesFrames
    /\ \E frame \in SeriesFrames :
         IF debug_build /\ PushFramePanics(series, frame)
         THEN /\ sop' = [SeriesCall("push_frame", 0, 0) EXCEPT !.panicked = TRUE]
              /\ UNCHANGED series
         ELSE /\ series' = PushFrame(series, frame)
              /\ sop' = SeriesCall("push_frame", 0, 0)
    /\ UNCHANGED <<animVars, debug_build, call>>

RebuildFromCall ==
    /\ ~sop.panicked
    /\ \E frame_count \in 0..MaxSeriesFrames, d \in Durations, builder \in Builders :
         /\ series' = RebuildFrom(series, frame_count, d, builder)
         /\ sop' = SeriesCall("rebuild_from", frame_count, 0)
    /\ UNCHANGED <<animVars, debug_build, call>>

UpdateGeometryFromLayoutCall ==
    /\ ~sop.panicked
    /\ \E layout \in Layouts, dims \in SourceDims :
         LET r == UpdateGeometryFromLayout(series, layout, dims[1], dims[2], <<1, 2>>)
         IN /\ series' = r.series
            /\ sop' = SeriesCall("update_geometry_from_layout", 0,
                                 IF r.ret.some THEN 1 ELSE -1)
    /\ UNCHANGED <<animVars, debug_build, call>>

FrameIndexAtCall ==
    /\ ~sop.panicked
    /\ \E elapsed \in Elapsed :
         sop' = SeriesCall("frame_index_at", elapsed, FrameIndexAt(series, elapsed))
    /\ UNCHANGED <<animVars, series, debug_build, call>>

NextSeries ==
    \/ SetGeometryCall
    \/ ClearCall
    \/ PushFrameCall
    \/ RebuildFromCall
    \/ UpdateGeometryFromLayoutCall
    \/ FrameIndexAtCall

SpecSeries == InitSeries /\ [][NextSeries]_vars

---------------------------------------------------------------------------
(* Calls of LayoutPolicy::derive and of AsciiRenderer::render_image.  call *)
(* holds the function a caller is about to call and its arguments, then    *)
(* the result.                                                             *)

\* A source side long enough for the derived side to leave the u16 range.
HugeSide == 131072

Aspects == { <<1, 2>>, <<1, 1>>, <<2, 1>> }

DeriveLayouts ==
    [kind : { "FixedColumns", "FitViewport", "ScaleToHeight" },
     columns : 0..MaxCap, rows : 0..MaxCap, cell_aspect : Aspects]

SourceSides == { 0, 1, 2, 4, HugeSide }

\* Resized pixels: opaque black, white and red, and a fully transparent white.
Pixels == { [r |-> 0, g |-> 0, b |-> 0, a |-> 255, luma |-> <<0, 1>>],
            [r |-> 255, g |-> 255, b |-> 255, a |-> 255, luma |-> <<1, 1>>],
            [r |-> 255, g |-> 0, b |-> 0, a |-> 255, luma |-> <<2126, 10000>>],
            [r |-> 255, g |-> 255, b |-> 255, a |-> 0, luma |-> <<1, 1>>] }

Textures == { <<p>> : p \in Pixels } \cup { <<p, q>> : p, q \in Pixels }

Options == [gradient : { Blocks, Binary }, invert : BOOLEAN,
            font_aspect : { FONT_ASPECT }, color_mode : ColorModes]

\* derive(source_width, source_height, default_aspect) about to be called.
DeriveInputs ==
    { [NoRenderCall EXCEPT !.fn = "derive", !.layout = l,
                           !.image = [width |-> w, height |-> h, texture |-> <<>>],
                           !.options = [DefaultOptions EXCEPT !.font_aspect = d]] :
      l \in DeriveLayouts, w \in SourceSides, h \in SourceSides,
      d \in { FONT_ASPECT, <<2, 1>> } }

\* render_image(image, layout, options) about to be called, on small images.
RenderInputs ==
    { [NoRenderCall EXCEPT !.fn = "render_image", !.layout = l,
                           !.image = [width |-> w, height |-> h, texture |-> t],
                           !.options = o] :
      l \in { x \in DeriveLayouts : x.cell_aspect = <<1, 2>> },
      w \in { 0, 2 }, h \in { 0, 2 }, t \in Textures, o \in Options }

InitRender ==
    /\ constructed = FALSE
    /\ anim = Unconstructed
    /\ clock = 0
    /\ op = NoCall
    /\ out = <<>>
    /\ series = EmptySeries
    /\ debug_build = FALSE
    /\ sop = NoSeriesCall
    /\ call \in DeriveInputs \cup RenderInputs

DeriveCall ==
    /\ call.fn = "derive" /\ ~call.done
    /\ call' = [call EXCEPT
                  !.done = TRUE,
                  !.geometry = Derive(call.layout, call.image.width,
                                      call.image.height, call.options.font_aspect),
                  !.ok = Derive(call.layout, call.image.width,
                                call.image.height, call.options.font_aspect).some]
    /\ UNCHANGED <<animVars, seriesVars>>

RenderImageCall ==
    /\ call.fn = "render_image" /\ ~call.done
    /\ call' = [call EXCEPT
                  !.done = TRUE,
                  !.ok = RenderImageCells(call.image, call.layout, call.options).ok,
                  !.geometry = RenderImageCells(call.image, call.layout,
                                                call.options).geometry,
                  !.cells = RenderImageCells(call.image, call.layout,
                                             call.options).cells]
    /\ UNCHANGED <<animVars, seriesVars>>

NextRender == DeriveCall \/ RenderImageCall

SpecRender == InitRender /\ [][NextRender]_vars

---------------------------------------------------------------------------
(* Properties of the playback controller *)

\* The delay the controller is documented to wait on the current frame: the
\* frame's own delay, or 120 ms when that is zero or there are no delays.
DocumentedDelay(a) ==
    LET own == IF a.current_frame_index < Len(a.frame_delays)
               THEN a.frame_delays[a.current_frame_index + 1]
               ELSE 0
    IN IF own = 0 THEN ADVANCE_INTERVAL ELSE own

\* C1: right after a successful new and right after every on_resize, from
\* whatever state and whether the rebuild succeeded or failed, the current
\* frame index is 0 and a full redraw is pending.
C1_ResetOnBuild ==
    /\ (op.name = "new" /\ op.ret) =>
           anim.current_frame_index = 0 /\ anim.needs_full_redraw
    /\ op.name = "on_resize" =>
           anim.current_frame_index = 0 /\ anim.needs_full_redraw

\* A failed rebuild (empty volume) right after on_resize, on a controller
\* that had been painted and had run for some time.
C1_Witness ==
    /\ op.name = "on_resize"
    /\ anim.volume = EmptyVolume
    /\ anim.current_frame_index = 0
    /\ anim.needs_full_redraw
    /\ clock >= ADVANCE_INTERVAL

\* C2: update on an active controller with a full redraw pending returns
\* true, clears the flag, stamps last_update with now and leaves every other
\* field, the frame index included, as it was; the flag is pending only with
\* frame 0 current, so the first update that reports a change after a
\* construction or resize shows frame 0, whatever the time elapsed.
C2_PendingRedraw ==
    constructed =>
        /\ anim.needs_full_redraw => anim.current_frame_index = 0
        /\ anim.needs_full_redraw =>
               \A size \in Sizes, now \in Nows :
                   LET r == Update(anim, now, size)
                   IN /\ IsActive(anim, size) =>
                             r = [ret |-> TRUE,
                                  anim |-> [anim EXCEPT !.needs_full_redraw = FALSE,
                                                        !.last_update = now]]
                      /\ ~r.ret => r.anim = anim

\* The first paint of a two-frame series whose frame 0 has delay 0, made
\* 120 ms after the construction: frame 0 is still current (an advance at
\* that instant would have left frame 1 current).
C2_Witness ==
    /\ op.name = "update" /\ op.ret /\ ~op.zero_viewport
    /\ ~anim.needs_full_redraw
    /\ anim.current_frame_index = 0
    /\ Len(anim.frame_delays) = 2
    /\ anim.frame_delays[1] = 0
    /\ clock = ADVANCE_INTERVAL
    /\ anim.last_update = clock

\* C3: on an active controller without a pending redraw, an update less than
\* the documented delay after last_update returns false and changes no
\* field; the delay of the current frame exists (the index is within the
\* delay list) and is replaced by 120 ms when it is zero.
C3_TooEarly ==
    constructed =>
        \A size \in Sizes, now \in Nows :
            IsActive(anim, size) =>
                /\ anim.current_frame_index < Len(anim.frame_delays)
                /\ (~anim.needs_full_redraw
                    /\ DurationSince(now, anim.last_update) < DocumentedDelay(anim)) =>
                       Update(anim, now, size) = [ret |-> FALSE, anim |-> anim]

\* Delays 0, 50 ms, 0 with frame 0 current: an update 100 ms after the last
\* stamp, with a non-zero viewport, has returned false.
C3_Witness ==
    /\ op.name = "update" /\ ~op.ret /\ ~op.zero_viewport
    /\ anim.frame_delays = <<0, 50, 0>>
    /\ anim.current_frame_index = 0
    /\ ~anim.needs_full_redraw
    /\ clock - anim.last_update = 100

\* C4: on an active controller without a pending redraw, an update at least
\* the documented delay after last_update returns true, stamps last_update
\* and moves the index to (index + 1) mod frame count when there are two or
\* more frames and leaves it when there is one: one step per call.
C4_Advance ==
    constructed =>
        \A size \in Sizes, now \in Nows :
            (/\ IsActive(anim, size)
             /\ ~anim.needs_full_redraw
             /\ DurationSince(now, anim.last_update) >= DocumentedDelay(anim)) =>
                LET n == VolumeFrameCount(anim.volume)
                    next == IF n >= 2 THEN (anim.current_frame_index + 1) % n
                            ELSE anim.current_frame_index
                IN Update(anim, now, size) =
                       [ret |-> TRUE,
                        anim |-> [anim EXCEPT !.last_update = now,
                                              !.current_frame_index = next]]

\* The last of three frames has become current by an update that returned
\* true (frame 2 is reached only by advancing from frame 1).
C4_Witness ==
    /\ op.name = "update" /\ op.ret /\ ~op.zero_viewport
    /\ VolumeFrameCount(anim.volume) = 3
    /\ anim.current_frame_index = 2
    /\ anim.last_update = clock

\* C5: after on_resize to a viewport with zero columns or zero lines the
\* volume is empty, is_active is false for every viewport, every update
\* returns false and changes nothing (the redraw stays pending, the index
\* stays 0) and render_cells appends nothing; update and render_cells are
\* no-ops as well whenever they are passed a zero viewport.
C5_Inactive ==
    constructed =>
        /\ (op.name = "on_resize" /\ op.zero_viewport) => anim.volume = EmptyVolume
        /\ anim.volume = EmptyVolume =>
               /\ anim.needs_full_redraw /\ anim.current_frame_index = 0
               /\ \A size \in Sizes, now \in Nows, prior \in PriorOutputs :
                      /\ ~IsActive(anim, size)
                      /\ Update(anim, now, size) = [ret |-> FALSE, anim |-> anim]
                      /\ RenderCells(anim, size, prior) = prior
        /\ \A size \in Sizes, now \in Nows, prior \in PriorOutputs :
               ZeroViewport(size) =>
                   /\ ~IsActive(anim, size)
                   /\ Update(anim, now, size) = [ret |-> FALSE, anim |-> anim]
                   /\ RenderCells(anim, size, prior) = prior

\* An update has returned false on a controller whose last resize emptied
\* the volume, 120 ms or more after the start: the redraw is still pending.
C5_Witness ==
    /\ op.name = "update" /\ ~op.ret
    /\ anim.volume = EmptyVolume
    /\ anim.needs_full_redraw
    /\ anim.current_frame_index = 0
    /\ Len(anim.source_frames) > 0
    /\ clock >= ADVANCE_INTERVAL

---------------------------------------------------------------------------
(* Properties of GlyphGridSeries *)

\* The sum of the durations of the first k frames.
RECURSIVE SumDurations(_, _)
SumDurations(frames, k) ==
    IF k = 0 THEN 0 ELSE SumDurations(frames, k - 1) + frames[k].duration

AllDurationsAre(frames, d) == \A i \in 1..Len(frames) : frames[i].duration = d

\* An elapsed time of two seconds and three nanoseconds.
LargeElapsed == 2 * NANOS_PER_SEC + 3

\* C6: with two or more frames and a non-zero total duration,
\* frame_index_at(elapsed) is the frame whose span contains elapsed mod
\* total: S_i <= r < S_i + duration_i, with S_i the sum of the durations of
\* the frames before i; zero-duration frames included.
C6_SpanContainsLoopedTime ==
    (Len(series.frames) >= 2 /\ TotalDuration(series) # 0) =>
        \A elapsed \in Elapsed :
            LET i == FrameIndexAt(series, elapsed)
                r == elapsed % TotalDuration(series)
                before == SumDurations(series.frames, i)
            IN before <= r /\ r < before + series.frames[i + 1].duration

\* C7: with N frames of one non-zero duration D, frame_index_at has period
\* N * D and equals floor(t / D) within the first period.
C7_EqualDurationsPeriodic ==
    LET n == Len(series.frames)
    IN (n >= 1 /\ series.frames[1].duration # 0
        /\ AllDurationsAre(series.frames, series.frames[1].duration)) =>
           \A t \in Elapsed :
               /\ FrameIndexAt(series, t) =
                      FrameIndexAt(series, t + n * series.frames[1].duration)
               /\ t < n * series.frames[1].duration =>
                      FrameIndexAt(series, t) = t \div series.frames[1].duration

\* frame_index_at(5) has returned 2 on three frames of duration 2.
C7_Witness ==
    /\ sop.name = "frame_index_at" /\ sop.arg = 5 /\ sop.ret = 2
    /\ Len(series.frames) = 3
    /\ AllDurationsAre(series.frames, 2)

\* C8: frame_index_at is 0 for every elapsed time, small or large, on a
\* series of one frame and on a series of several frames whose durations
\* sum to zero.
C8_SingleOrZeroTotal ==
    \A t \in Elapsed \cup { LargeElapsed } :
        /\ Len(series.frames) = 1 => FrameIndexAt(series, t) = 0
        /\ (Len(series.frames) >= 2
            /\ SumDurations(series.frames, Len(series.frames)) = 0) =>
               FrameIndexAt(series, t) = 0

\* frame_index_at has returned 0 for the largest elapsed time asked, on a
\* series of three zero-duration frames.
C8_Witness ==
    /\ sop.name = "frame_index_at" /\ sop.arg = MaxElapsed /\ sop.ret = 0
    /\ Len(series.frames) = 3
    /\ AllDurationsAre(series.frames, 0)

---------------------------------------------------------------------------
(* Properties of create_volume *)

\* The layout create_volume renders with, for a non-zero viewport.
LayoutOf(size) ==
    [kind |-> "FitViewport", columns |-> size.columns, rows |-> size.screen_lines,
     cell_aspect |-> CellAspect(size)]

\* Source positions whose render succeeds with a non-empty grid.
Renderable(size, frames) ==
    { i \in 1..Len(frames) :
        LET r == RenderImage(frames[i].image, LayoutOf(size))
        IN r.ok /\ r.grid.width > 0 /\ r.grid.height > 0 }

SetMin(S) == CHOOSE x \in S : \A y \in S : x <= y

\* The positions documented as retained, in source order: the renderable
\* frames whose grid has the dimensions of the first renderable frame.
RetainedPositions(size, frames) ==
    LET first == RenderImage(frames[SetMin(Renderable(size, frames))].image,
                             LayoutOf(size)).grid
        Keeps(i) == /\ i \in Renderable(size, frames)
                    /\ RenderImage(frames[i].image, LayoutOf(size)).grid.width = first.width
                    /\ RenderImage(frames[i].image, LayoutOf(size)).grid.height = first.height
    IN SelectSeq([i \in 1..Len(frames) |-> i], Keeps)

\* What C10 says of the result v of create_volume(size, frames).
RetainsFirstGeometry(size, frames, v) ==
    LET kept == RetainedPositions(size, frames)
        first == RenderImage(frames[kept[1]].image, LayoutOf(size)).grid
        stride == first.width * first.height
    IN /\ Len(kept) >= 1
       /\ v.volume.width = first.width
       /\ v.volume.height = first.height
       /\ v.volume.frame_count = Len(kept)
       /\ v.frame_delays = [k \in 1..Len(kept) |-> frames[kept[k]].delay]
       /\ Len(v.volume.cells) = stride * Len(kept)
       /\ \A k \in 1..Len(kept) :
              SubSeq(v.volume.cells, (k - 1) * stride + 1, k * stride) =
                  RenderImage(frames[kept[k]].image, LayoutOf(size)).grid.cells

\* C10: for every viewport, create_volume on the retained source frames
\* builds a series exactly when the viewport is non-zero and some frame
\* renders; the series holds, in source order, the frames whose rendered
\* width and height equal those of the first renderable frame, the others
\* are dropped with their delays, and there is one delay per retained frame.
\* The series and delays the controller holds are those of create_volume for
\* some viewport, or empty.
C10_RetainedFrames ==
    constructed =>
        /\ \A size \in Sizes :
               LET v == CreateVolume(size, anim.source_frames)
               IN /\ v.some <=> (~ZeroViewport(size)
                                 /\ Renderable(size, anim.source_frames) # {})
                  /\ v.some => RetainsFirstGeometry(size, anim.source_frames, v)
        /\ \E size \in Sizes :
               LET v == CreateVolume(size, anim.source_frames)
               IN IF v.some
                  THEN anim.volume = v.volume /\ anim.frame_delays = v.frame_delays
                  ELSE anim.volume = EmptyVolume /\ anim.frame_delays = <<>>

\* After a resize, of three source frames the first failed to render, the
\* second was retained and the third, of another shape, was dropped with
\* its delay.
C10_Witness ==
    /\ op.name = "on_resize"
    /\ Len(anim.source_frames) = 3
    /\ anim.source_frames[1].image.width = 0
    /\ anim.source_frames[3].image.height # anim.source_frames[2].image.height
    /\ anim.volume.frame_count = 1
    /\ anim.frame_delays = <<anim.source_frames[2].delay>>
    /\ anim.volume.cells[1].src = 2

---------------------------------------------------------------------------
(* Properties of LayoutPolicy::derive and render_image *)

DerivedFit ==
    /\ call.fn = "derive" /\ call.done
    /\ call.layout.kind = "FitViewport"
    /\ call.image.width > 0 /\ call.image.height > 0

C12_FailsOnlyOnZeroSource ==
    (call.done /\ call.fn \in { "derive", "render_image" }) =>
        /\ call.ok <=> (call.image.width # 0 /\ call.image.height # 0)
        /\ call.ok <=> call.geometry.some
        /\ call.ok => call.geometry.columns >= 1 /\ call.geometry.rows >= 1

\* ScaleToHeight on a source far taller than wide: the columns derived from
\* the rows round to 0 and are raised to 1.
C12_Witness ==
    /\ call.fn = "derive" /\ call.done
    /\ call.layout.kind = "ScaleToHeight"
    /\ call.image.height = HugeSide /\ call.image.width = 1
    /\ call.geometry.some
    /\ call.geometry.columns = 1

\* The cell documented for a pixel when true colour is not requested: the
\* gradient glyph of the intensity, a gray foreground of the intensity
\* quantized to a byte, no background, alpha 1.
LuminanceCell(pixel, options) ==
    LET intensity == ExtractLuma(pixel, options.invert)
        level == Round(intensity[1] * 255, intensity[2])
        index == Round(intensity[1] * (Len(options.gradient) - 1), intensity[2])
    IN [ch |-> options.gradient[index + 1], fg |-> <<level, level, level>>,
        bg |-> "None", alpha |-> <<1, 1>>]

\* C13: with color_mode = Luminance every cell of the grid render_image
\* returns is the grayscale cell of its pixel's intensity; the raster's RGB
\* and alpha reach the cells only with color_mode = ColorAlpha.
C13_LuminanceIsGrayscale ==
    (call.fn = "render_image" /\ call.done /\ call.ok
     /\ call.options.color_mode = "Luminance") =>
        \A i \in 1..Len(call.cells) :
            call.cells[i] =
                LuminanceCell(Resized(call.image.texture, Len(call.cells))[i],
                              call.options)

---------------------------------------------------------------------------
(* Further properties of the playback controller *)

\* Cell k (0-based) of the current frame, read from the flat cell vector.
CurrentCell(k) ==
    anim.volume.cells[anim.current_frame_index * anim.volume.width * anim.volume.height
                      + k + 1]

\* What C14 says of the output o of render_cells(size) on the output prior.
ClippedRowMajor(size, prior, o) ==
    /\ Len(o) = Len(prior) + Min(size.columns, anim.volume.width)
                             * Min(size.screen_lines, anim.volume.height)
    /\ SubSeq(o, 1, Len(prior)) = prior
    /\ \A line \in 0..(Min(size.screen_lines, anim.volume.height) - 1),
          column \in 0..(Min(size.columns, anim.volume.width) - 1) :
           o[Len(prior) + line * Min(size.columns, anim.volume.width) + column + 1] =
               [cell |-> CurrentCell(line * anim.volume.width + column),
                point |-> <<line, column>>]

\* C14: on an active controller whose current frame has cells, render_cells
\* appends min(columns, width) * min(lines, height) cells in row-major
\* order, the one for (line, column) being the current frame's cell
\* line * width + column at point (line, column), and leaves the cells
\* already in the output as they were.
C14_ClippedRowMajor ==
    constructed =>
        \A size \in Sizes, prior \in PriorOutputs :
            (IsActive(anim, size) /\ Len(CurrentFrameCells(anim)) > 0) =>
                ClippedRowMajor(size, prior, RenderCells(anim, size, prior))

\* render_cells has clipped frame 1 of a grid 2 wide and 2 high to one
\* column: after the prior cell come cell 0 at (0, 0) and cell 2 at (1, 0).
C14_Witness ==
    /\ op.name = "render_cells"
    /\ anim.volume.width = 2 /\ anim.volume.height = 2
    /\ anim.current_frame_index = 1
    /\ Len(out) = 3
    /\ out[1] = PriorCell
    /\ out[2] = [cell |-> [src |-> 2, idx |-> 0], point |-> <<0, 0>>]
    /\ out[3] = [cell |-> [src |-> 2, idx |-> 2], point |-> <<1, 0>>]

\* The series and delays a rebuild for viewport size installs, as a function
\* of the viewport and the source frames alone.
Installed(size, frames) ==
    IF CreateVolume(size, frames).some
    THEN [volume |-> CreateVolume(size, frames).volume,
          frame_delays |-> CreateVolume(size, frames).frame_delays]
    ELSE [volume |-> EmptyVolume, frame_delays |-> <<>>]

InstalledBy(a) == [volume |-> a.volume, frame_delays |-> a.frame_delays]

\* The state part of C15: what a resize has installed, and what a resize to
\* a non-zero viewport installs from an inactive controller, is Installed
\* of the viewport and the source frames, whatever the other fields are.
RebuildDependsOnInputsOnly ==
    /\ (constructed /\ op.name = "on_resize") =>
           \E size \in Sizes :
               /\ ZeroViewport(size) = op.zero_viewport
               /\ InstalledBy(anim) = Installed(size, anim.source_frames)
    /\ (constructed /\ anim.volume = EmptyVolume) =>
           \A size \in Sizes :
               ~ZeroViewport(size) =>
                   /\ InstalledBy(OnResize(anim, size, clock)) =
                          Installed(size, anim.source_frames)
                   /\ IsActive(OnResize(anim, size, clock), size)

\* The step part of C15.
SourcesKept ==
    constructed =>
        /\ constructed'
        /\ anim'.source_frames = anim.source_frames
        /\ anim'.color_mode = anim.color_mode

\* C15: update, on_resize and render_cells never change the retained source
\* frames or the colour mode; what on_resize(V) installs is a function of V
\* and the source frames; and from a controller made inactive by a
\* zero-size resize, on_resize(V) with a non-zero V gives an active
\* controller with that same series and delays.
C15_RebuildFromSources == []RebuildDependsOnInputsOnly /\ [][SourcesKept]_vars

\* A controller of three source frames that has run for some time has been
\* made inactive by a resize to a zero-size viewport.
C15_Witness ==
    /\ constructed
    /\ op.name = "on_resize" /\ op.zero_viewport
    /\ anim.volume = EmptyVolume
    /\ Len(anim.source_frames) = 3
    /\ clock >= ADVANCE_INTERVAL

\* C16: once constructed, the current frame index is below the frame count
\* of the series, or 0 when the series has no frame; so on an active
\* controller the current frame is a full slice of width * height cells.
C16_IndexWithinSeries ==
    constructed =>
        /\ VolumeFrameCount(anim.volume) > 0 =>
               anim.current_frame_index < VolumeFrameCount(anim.volume)
        /\ VolumeFrameCount(anim.volume) = 0 => anim.current_frame_index = 0
        /\ \A size \in Sizes :
               IsActive(anim, size) =>
                   /\ VolumeFrame(anim.volume, anim.current_frame_index).some
                   /\ Len(CurrentFrameCells(anim)) =
                          anim.volume.width * anim.volume.height

\* update has advanced to the last frame of a series of two frames that a
\* resize built from three source frames, one of which was dropped.
C16_Witness ==
    /\ op.name = "update" /\ op.ret
    /\ Len(anim.source_frames) = 3
    /\ VolumeFrameCount(anim.volume) = 2
    /\ anim.current_frame_index = 1

\* C17: once constructed, there are as many delays as frames in the series
\* (none when the series is empty), the clamp of the index to the last delay
\* changes nothing, and current_frame_delay is the delay of the current
\* frame, 120 ms standing for a zero or absent delay.
C17_DelaysMatchSeries ==
    constructed =>
        /\ Len(anim.frame_delays) = VolumeFrameCount(anim.volume)
        /\ anim.volume = EmptyVolume <=> Len(anim.frame_delays) = 0
        /\ Len(anim.frame_delays) > 0 =>
               Min(anim.current_frame_index, Len(anim.frame_delays) - 1) =
                   anim.current_frame_index
        /\ CurrentFrameDelay(anim) = DocumentedDelay(anim)

\* A failed rebuild has emptied both the series and the delays of a
\* controller that had been painted.
C17_Witness ==
    /\ constructed
    /\ op.name = "on_resize" /\ op.zero_viewport
    /\ VolumeFrameCount(anim.volume) = 0
    /\ Len(anim.frame_delays) = 0
    /\ Len(anim.source_frames) = 2
    /\ clock > 0

---------------------------------------------------------------------------
(* Further properties of create_volume *)

\* The accumulators at the end of the loop of create_volume.
Accumulated(size, frames) ==
    CreateVolumeLoop(frames, 1, LayoutOf(size), NoAccumulated)

\* The checks before the cell-count check have passed.
ReachesCellCheck(acc) ==
    /\ acc.dims_some
    /\ Len(acc.delays) # 0
    /\ acc.width * acc.height # 0

\* C18: for the source frames of a controller and every viewport, when
\* create_volume reaches its cell-count check the accumulated cells number
\* width * height * retained delays, so the check passes and the rebuild
\* succeeds.
C18_CellCountCheckPasses ==
    constructed =>
        \A size \in Sizes :
            (~ZeroViewport(size)
             /\ ReachesCellCheck(Accumulated(size, anim.source_frames))) =>
                /\ Len(Accumulated(size, anim.source_frames).cells) =
                       Accumulated(size, anim.source_frames).width
                       * Accumulated(size, anim.source_frames).height
                       * Len(Accumulated(size, anim.source_frames).delays)
                /\ CreateVolume(size, anim.source_frames).some

\* A resize has built two frames of 2 by 2 cells from three source frames,
\* the second of which rendered to another shape and was dropped.
C18_Witness ==
    /\ op.name = "on_resize"
    /\ Len(anim.source_frames) = 3
    /\ anim.source_frames[1].image.width > 0
    /\ anim.source_frames[2].image.width > 0
    /\ anim.source_frames[2].image.height # anim.source_frames[1].image.height
    /\ anim.volume.width = 2 /\ anim.volume.height = 2
    /\ anim.volume.frame_count = 2
    /\ Len(anim.volume.cells) = 8

---------------------------------------------------------------------------
(* Progress of the playback *)

\* C19: on a controller of two or more frames that is never resized, while
\* time passes and update keeps being called with a non-zero viewport, each
\* frame index of the series becomes the current one again and again.
C19_EveryFrameRecurs ==
    \A i \in 0..(MaxFrames - 1) :
        (constructed /\ VolumeFrameCount(anim.volume) >= 2
         /\ i < VolumeFrameCount(anim.volume))
            ~> (constructed /\ anim.current_frame_index = i)

\* update has left frame 0, whose nominal delay is zero, for frame 1 of a
\* series of three frames.
C19_Witness ==
    /\ op.name = "update" /\ op.ret
    /\ VolumeFrameCount(anim.volume) = 3
    /\ anim.frame_delays[1] = 0
    /\ anim.current_frame_index = 1
    /\ ~anim.needs_full_redraw

---------------------------------------------------------------------------
(* Further properties of GlyphGridSeries *)

\* C20: total_duration() is the sum of the durations of the frames held,
\* zero for an empty series; frame_index_at is None exactly on an empty
\* series and otherwise an index below len().
C20_TotalAndIndexRange ==
    /\ TotalDuration(series) = SumDurations(series.frames, Len(series.frames))
    /\ Len(series.frames) = 0 => TotalDuration(series) = 0
    /\ \A t \in Elapsed \cup { LargeElapsed } :
           /\ FrameIndexAt(series, t) = -1 <=> Len(series.frames) = 0
           /\ Len(series.frames) > 0 =>
                  /\ FrameIndexAt(series, t) >= 0
                  /\ FrameIndexAt(series, t) < Len(series.frames)

\* rebuild_from has replaced the frames of the series by two frames of
\* duration 2: the total is 4.
C20_Witness ==
    /\ sop.name = "rebuild_from" /\ sop.arg = 2
    /\ Len(series.frames) = 2
    /\ AllDurationsAre(series.frames, 2)
    /\ TotalDuration(series) = 4

====
